---- MODULE Spec2Model ----
(***************************************************************************)
(* A model of the Taiwan-market portfolio tracker: the ledger handlers of  *)
(* src/App.tsx (buy, sell, remove, analyse) and the price/AI pipeline and  *)
(* JSON recovery function of src/services/geminiService.ts.                *)
(*                                                                         *)
(* Numbers.  The program computes with IEEE doubles.  Form inputs are      *)
(* drawn from small integer sets; a quotient is kept as an exact fraction  *)
(* [n, d] in lowest terms with d > 0, and the non-finite results of a      *)
(* division by zero are kept as d = 0 (n = 1: Infinity, n = -1: -Infinity, *)
(* n = 0: NaN).  Rounding of doubles is not modelled.                      *)
(***************************************************************************)
EXTENDS Integers, Sequences, FiniteSets, TLC

\* ------------------------------------------------------------------ bounds
MaxShares == 2
MaxPrice == 1
\* the largest close the price API answers with
MaxClose == 2
MaxFee == 1
MaxTx == 2
MaxTime == 1
MaxAlerts == 1
\* how many buys a behaviour holds
MaxBuys == 2
\* how many times the advice button is pressed
MaxAdviceCalls == 2

\* ------------------------------------------------------- program constants
InitCash == 100000

Symbols == {"2330", "2317"}
\* parseFloat of what a type="number" input holds: any finite number, the
\* sign included (the inputs carry no min attribute)
ShareInputs == (0 - 1)..MaxShares
PriceInputs == 1..MaxPrice
\* the fee field may be left empty, which the handlers read as 0
FeeInputs == 0..MaxFee

Undefined == "undefined"

\* ------------------------------------------------------------- arithmetic
Abs(x) == IF x < 0 THEN 0 - x ELSE x
Sign(x) == IF x > 0 THEN 1 ELSE IF x < 0 THEN 0 - 1 ELSE 0

RECURSIVE Gcd(_, _)
Gcd(a, b) == IF b = 0 THEN a ELSE Gcd(b, a % b)

\* a / b on doubles holding the integers a and b
Div(a, b) ==
  IF b = 0 THEN [n |-> Sign(a), d |-> 0]
  ELSE LET g == Gcd(Abs(a), Abs(b))
       IN  [n |-> (Sign(b) * a) \div g, d |-> Abs(b) \div g]

Num(k) == [n |-> k, d |-> 1]

\* r * k for a fraction r and an integer k
Mul(r, k) ==
  IF r.d = 0 THEN [n |-> Sign(r.n * k), d |-> 0]
  ELSE Div(r.n * k, r.d)

\* k - r for an integer k and a fraction r
Sub(k, r) ==
  IF r.d = 0 THEN [n |-> 0 - r.n, d |-> 0]
  ELSE Div(k * r.d - r.n, r.d)

\* r > 0
Positive(r) == r.n > 0

\* (a / b) * 100 for finite fractions a and b
Ratio100(a, b) ==
  IF b.n = 0 THEN [n |-> Sign(a.n), d |-> 0]
  ELSE Div(a.n * b.d * 100, a.d * b.n)

\* ------------------------------------------------- text of an AI response
\* A text is a sequence of tokens; each token stands for the characters that
\* replace, trim, indexOf, substring and JSON.parse treat as a unit:
\*   "{" "}" "[" "]" ":" ","   the structural characters
\*   "q"                       a double quote
\*   "s" "n" "a" "p"           the string literals "x", "companyName",
\*                             "advice", "currentPrice"
\*   "1" "2"                   number literals
\*   "N"                       the literal null
\*   "w"                       a white-space character
\*   "x"                       a word that is no JSON literal
\*   "F" "J"                   the code-fence markers ``` and ```json
StringToks == {"s", "n", "a", "p"}
NumberToks == {"1", "2"}

EmptyObject == <<"{", "}">>
\* a response whose text is missing
UndefinedText == <<Undefined>>

\* the first position >= i that holds no white space (Len(t) + 1 if none)
RECURSIVE SkipWs(_, _)
SkipWs(t, i) ==
  IF i > Len(t) THEN Len(t) + 1
  ELSE IF t[i] = "w" THEN SkipWs(t, i + 1) ELSE i

\* the position of the first tok at or after i, 0 if there is none
RECURSIVE IndexFrom(_, _, _)
IndexFrom(t, tok, i) ==
  IF i > Len(t) THEN 0
  ELSE IF t[i] = tok THEN i ELSE IndexFrom(t, tok, i + 1)

\* the position of the last tok at or before i, 0 if there is none
RECURSIVE LastIndexFrom(_, _, _)
LastIndexFrom(t, tok, i) ==
  IF i < 1 THEN 0
  ELSE IF t[i] = tok THEN i ELSE LastIndexFrom(t, tok, i - 1)

\* The JSON grammar.  Each P... takes the position i of the first token of
\* the phrase and gives the position after the phrase, or 0 when the tokens
\* from i on do not start with such a phrase.
PString(t, i) ==
  IF i > Len(t) THEN 0
  ELSE IF t[i] \in StringToks THEN i + 1
  ELSE IF t[i] = "q"
       THEN LET j == IndexFrom(t, "q", i + 1) IN IF j = 0 THEN 0 ELSE j + 1
       ELSE 0

RECURSIVE PValue(_, _), PMembers(_, _), PElements(_, _)
PValue(t, i) ==
  IF i > Len(t) THEN 0
  ELSE IF t[i] \in NumberToks \cup {"N"} THEN i + 1
  ELSE IF t[i] \in StringToks \cup {"q"} THEN PString(t, i)
  ELSE IF t[i] = "{"
       THEN LET j == SkipWs(t, i + 1)
            IN  IF j <= Len(t) /\ t[j] = "}" THEN j + 1 ELSE PMembers(t, j)
  ELSE IF t[i] = "["
       THEN LET j == SkipWs(t, i + 1)
            IN  IF j <= Len(t) /\ t[j] = "]" THEN j + 1 ELSE PElements(t, j)
  ELSE 0

\* member ("," member)* "}" from position i on
PMembers(t, i) ==
  LET k == PString(t, i)
      c == IF k = 0 THEN 0 ELSE SkipWs(t, k)
      v == IF c = 0 \/ c > Len(t) \/ t[c] # ":" THEN 0
           ELSE PValue(t, SkipWs(t, c + 1))
      e == IF v = 0 THEN 0 ELSE SkipWs(t, v)
  IN  IF e = 0 \/ e > Len(t) THEN 0
      ELSE IF t[e] = "}" THEN e + 1
      ELSE IF t[e] = "," THEN PMembers(t, SkipWs(t, e + 1))
      ELSE 0

\* value ("," value)* "]" from position i on
PElements(t, i) ==
  LET v == PValue(t, i)
      e == IF v = 0 THEN 0 ELSE SkipWs(t, v)
  IN  IF e = 0 \/ e > Len(t) THEN 0
      ELSE IF t[e] = "]" THEN e + 1
      ELSE IF t[e] = "," THEN PElements(t, SkipWs(t, e + 1))
      ELSE 0

\* the tokens of t from i on without the white space outside string literals
RECURSIVE Canon(_, _, _)
Canon(t, i, inString) ==
  IF i > Len(t) THEN <<>>
  ELSE IF t[i] = "q" THEN <<"q">> \o Canon(t, i + 1, ~inString)
  ELSE IF t[i] = "w" /\ ~inString THEN Canon(t, i + 1, inString)
  ELSE <<t[i]>> \o Canon(t, i + 1, inString)

\* JSON.parse(t): the value (its tokens, insignificant white space dropped),
\* or a SyntaxError
JSONparse(t) ==
  LET i == SkipWs(t, 1)
      e == PValue(t, i)
  IN  IF e # 0 /\ SkipWs(t, e) > Len(t)
      THEN [threw |-> FALSE, value |-> Canon(t, 1, FALSE)]
      ELSE [threw |-> TRUE, value |-> <<>>]

\* text.replace(/```json\s*/g, '')
RECURSIVE StripJsonFences(_, _, _)
StripJsonFences(t, i, afterFence) ==
  IF i > Len(t) THEN <<>>
  ELSE IF t[i] = "J" THEN StripJsonFences(t, i + 1, TRUE)
  ELSE IF t[i] = "w" /\ afterFence THEN StripJsonFences(t, i + 1, TRUE)
  ELSE <<t[i]>> \o StripJsonFences(t, i + 1, FALSE)

\* text.replace(/```/g, '')
StripFences(t) == SelectSeq(t, LAMBDA tok : tok # "F")

\* text.trim()
Trim(t) ==
  LET first == SkipWs(t, 1)
      RECURSIVE LastNonWs(_)
      LastNonWs(i) == IF i < 1 THEN 0
                      ELSE IF t[i] = "w" THEN LastNonWs(i - 1) ELSE i
      last == LastNonWs(Len(t))
  IN  IF first > last THEN <<>> ELSE SubSeq(t, first, last)

\* text.substring(a, b) with 0-based a, b: the arguments are swapped when a > b
Substring(t, a, b) ==
  LET lo == IF a <= b THEN a ELSE b
      hi == IF a <= b THEN b ELSE a
  IN  SubSeq(t, lo + 1, hi)

\* the function without the try around its last JSON.parse
cleanAndParseJson_noInnerCatch(text) ==
  IF text = UndefinedText \/ text = <<>> THEN [threw |-> FALSE, value |-> EmptyObject]
  ELSE
    LET r1 == JSONparse(text)
        clean == Trim(StripFences(StripJsonFences(text, 1, FALSE)))
        r2 == JSONparse(clean)
        start == IndexFrom(text, "{", 1) - 1
        end == LastIndexFrom(text, "}", Len(text)) - 1
        r3 == JSONparse(Substring(text, start, end + 1))
    IN  IF ~r1.threw THEN r1
        ELSE IF ~r2.threw THEN r2
        ELSE IF start # 0 - 1 /\ end # 0 - 1
             THEN r3
             ELSE [threw |-> FALSE, value |-> EmptyObject]

\* the function with substring(start, end) for substring(start, end + 1)
cleanAndParseJson_shortSpan(text) ==
  IF text = UndefinedText \/ text = <<>> THEN [threw |-> FALSE, value |-> EmptyObject]
  ELSE
    LET r1 == JSONparse(text)
        clean == Trim(StripFences(StripJsonFences(text, 1, FALSE)))
        r2 == JSONparse(clean)
        start == IndexFrom(text, "{", 1) - 1
        end == LastIndexFrom(text, "}", Len(text)) - 1
        r3 == JSONparse(Substring(text, start, end))
    IN  IF ~r1.threw THEN r1
        ELSE IF ~r2.threw THEN r2
        ELSE IF start # 0 - 1 /\ end # 0 - 1
             THEN IF ~r3.threw THEN r3
                  ELSE [threw |-> FALSE, value |-> EmptyObject]
             ELSE [threw |-> FALSE, value |-> EmptyObject]

cleanAndParseJson(text) ==
  IF text = UndefinedText \/ text = <<>> THEN [threw |-> FALSE, value |-> EmptyObject]
  ELSE
    LET r1 == JSONparse(text)
        clean == Trim(StripFences(StripJsonFences(text, 1, FALSE)))
        r2 == JSONparse(clean)
        start == IndexFrom(text, "{", 1) - 1
        end == LastIndexFrom(text, "}", Len(text)) - 1
        r3 == JSONparse(Substring(text, start, end + 1))
    IN  IF ~r1.threw THEN r1
        ELSE IF ~r2.threw THEN r2
        ELSE IF start # 0 - 1 /\ end # 0 - 1
             THEN IF ~r3.threw THEN r3
                  ELSE [threw |-> FALSE, value |-> EmptyObject]
             ELSE [threw |-> FALSE, value |-> EmptyObject]

\* ------------------------------------------------ values of the pipeline
\* an optional value: None for null / undefined / a missing property
None == <<>>
Some(v) == <<v>>

\* the decimal digits of the closes
Digit == [n \in 0..9 |-> <<"0", "1", "2", "3", "4", "5", "6", "7", "8", "9">>[n + 1]]
DigitChars == {Digit[n] : n \in 0..9}
DigitOf(char) == CHOOSE n \in 0..9 : Digit[n] = char

\* the placeholder of data.advice || ... (the text reads "no advice for now")
NoAdvice == "no advice"
\* the text fetchStockSupportingData returns when its request fails
NoSupportingData == "no supporting data"

\* the value of a close property as the JSON body gives it: a number, a
\* string, null, or undefined when the record has no such property; text is
\* what String() makes of a number or string
NumberClose(n) ==
  [json |-> "number",
   text |-> IF n < 0 THEN <<"-", Digit[0 - n]>> ELSE <<Digit[n]>>]
StringClose(chars) == [json |-> "string", text |-> chars]
NullClose == [json |-> "null", text |-> <<>>]
UndefinedClose == [json |-> "undefined", text |-> <<>>]

\* a daily record with its close, and a null in the place of a record
Record(close) == [isNull |-> FALSE, close |-> close]
NullRecord == [isNull |-> TRUE, close |-> UndefinedClose]

\* the number of decimal digits chars starts with from position i on
RECURSIVE DigitRun(_, _)
DigitRun(chars, i) ==
  IF i <= Len(chars) /\ chars[i] \in DigitChars
  THEN 1 + DigitRun(chars, i + 1) ELSE 0

\* the value of the n decimal digits of chars from position i on
RECURSIVE DigitsValue(_, _, _)
DigitsValue(chars, i, n) ==
  IF n = 0 THEN 0
  ELSE 10 * DigitsValue(chars, i, n - 1) + DigitOf(chars[i + n - 1])

\* the position of the first character of chars from i on that is no blank
RECURSIVE SkipBlanks(_, _)
SkipBlanks(chars, i) ==
  IF i <= Len(chars) /\ chars[i] = " " THEN SkipBlanks(chars, i + 1) ELSE i

\* parseFloat(close): String(close) with its leading blanks skipped, then
\* the longest prefix that is a decimal number (a sign and digits here), the
\* rest of the string ignored; None stands for NaN
parseFloat(close) ==
  IF close.json \in {"null", "undefined"} THEN None
  ELSE LET chars == close.text
           i == SkipBlanks(chars, 1)
           signed == i <= Len(chars) /\ chars[i] \in {"-", "+"}
           j == IF signed THEN i + 1 ELSE i
           n == DigitRun(chars, j)
       IN  IF n = 0 THEN None
           ELSE IF signed /\ chars[i] = "-"
                THEN Some(0 - DigitsValue(chars, j, n))
                ELSE Some(DigitsValue(chars, j, n))

\* what fetch() of the price API can come back with: a rejection
\* ("exception"), a response whose body is no JSON or is not an object
\* ("badbody"), or a response with a status and a body {msg, data}; data is
\* an array of records, or something that is no array
HttpResponse(ok, msg, data) ==
  [kind |-> "http", ok |-> ok, msg |-> msg, isArray |-> TRUE, data |-> data]
FinMindResponses ==
  { [kind |-> "exception", ok |-> FALSE, msg |-> "", isArray |-> FALSE, data |-> <<>>],
    HttpResponse(FALSE, "", <<>>),
    HttpResponse(TRUE, "error", <<Record(NumberClose(1))>>),
    HttpResponse(TRUE, "success", <<>>),
    HttpResponse(TRUE, "success", <<Record(NumberClose(1)), Record(NumberClose(0))>>),
    HttpResponse(TRUE, "success", <<Record(NumberClose(1)), Record(UndefinedClose)>>) }
  \cup { HttpResponse(TRUE, "success",
                      <<Record(NumberClose(MaxClose + 1 - c)), Record(NumberClose(c))>>) :
           c \in 1..MaxClose }

\* fetchFinMindPrice without its try / catch
fetchFinMindPrice_noCatch(response) ==
  IF response.kind \in {"exception", "badbody"}
  THEN [rejected |-> TRUE, value |-> None]
  ELSE IF ~response.ok THEN [rejected |-> FALSE, value |-> None]
  ELSE IF response.msg = "success" /\ response.isArray /\ Len(response.data) > 0
       THEN LET latestData == response.data[Len(response.data)]
            IN  IF latestData.isNull THEN [rejected |-> TRUE, value |-> None]
                ELSE LET price == parseFloat(latestData.close)
                     IN  [rejected |-> FALSE,
                          value |-> IF price # None /\ price[1] > 0
                                    THEN price ELSE None]
       ELSE [rejected |-> FALSE, value |-> None]
\* the promise of fetchFinMindPrice for a response: whether it rejects, and
\* the price it resolves to, None for null. Whatever throws inside the try
\* (fetch, response.json(), a property read of null) ends in the catch.
fetchFinMindPrice(response) ==
  IF response.kind \in {"exception", "badbody"}
  THEN [rejected |-> FALSE, value |-> None]
  ELSE IF ~response.ok THEN [rejected |-> FALSE, value |-> None]
  ELSE IF response.msg = "success" /\ response.isArray /\ Len(response.data) > 0
       THEN LET latestData == response.data[Len(response.data)]
            IN  IF latestData.isNull THEN [rejected |-> FALSE, value |-> None]
                ELSE LET price == parseFloat(latestData.close)
                     IN  [rejected |-> FALSE,
                          value |-> IF price # None /\ price[1] > 0
                                    THEN price ELSE None]
       ELSE [rejected |-> FALSE, value |-> None]

\* the texts the JSON-structuring request can answer with
AiTexts ==
  { UndefinedText,
    <<"x", "w", "x">>,
    <<"N">>,
    <<"{", "n", ":", "s", ",", "p", ":", "2", "}">>,
    <<"J", "w", "{", "n", ":", "s", ",", "p", ":", "1", ",", "a", ":", "s", "}", "w", "F">> }

\* what transformDataToJson returns for each of these texts
RecoveredJson == [text \in AiTexts |-> cleanAndParseJson(text).value]

\* data[key] of a parsed value: the token of the member's value, or None.
\* A property read of a number, string or array gives undefined.
Field(value, key) ==
  IF value[1] # "{" THEN None
  ELSE LET i == IndexFrom(value, key, 2)
       IN  IF i # 0 /\ i + 2 <= Len(value) /\ value[i + 1] = ":"
           THEN Some(value[i + 2]) ELSE None

NumVal(tok) == IF tok = "1" THEN 1 ELSE 2

\* the StockAnalysis analyzeStockWithGemini builds from the parsed data
BuildAnalysis(symbol, data) ==
  [ present |-> TRUE,
    companyName |-> IF Field(data, "n") # None THEN "x" ELSE symbol,
    currentPrice |-> IF Field(data, "p") # None
                     THEN Some(NumVal(Field(data, "p")[1])) ELSE None,
    advice |-> IF Field(data, "a") # None THEN "x" ELSE NoAdvice ]

NoAnalysis ==
  [present |-> FALSE, companyName |-> "", currentPrice |-> None, advice |-> ""]

Pending == [state |-> "pending", reason |-> ""]
Fulfilled == [state |-> "fulfilled", reason |-> ""]
Rejected(why) == [state |-> "rejected", reason |-> why]

\* ------------------------------------------------------------------ state
VARIABLES
  settings,       \* AppSettings: the cash balance
  portfolio,      \* PortfolioItem[]
  transactions,   \* Transaction[]
  analyses,       \* Record<string, StockAnalysis>
  loadingStates,  \* Record<string, boolean>
  sellItem,       \* the position the sell dialog was opened on, or None
  alerts,         \* number of alert() dialogs shown to the user
  now,            \* Date.now()
  bought,         \* the number of buys so far
  apiKey,         \* whether the environment holds an API key
  pc,             \* per symbol: where its analyzeStockWithGemini call stands
  realTimePrice,  \* per symbol: the result of step 1 of the running call
  supportingData, \* per symbol: the result of step 2 of its latest call
  requests,       \* per symbol: the external requests its latest call issued
  result,         \* per symbol: the promise of its latest call
  watchlist,      \* WatchListItem[]
  adviceCalls,    \* the calls of getOverallPortfolioAdvice, oldest first
  overallAdvice,  \* the advice text the page shows
  isAdviceLoading, \* whether the advice button reads "analysing"
  localStorage,   \* per key: the stored text (its JSON value), None when missing
  fromWatchlist,  \* per symbol: its running call was started by a watchlist add
  prefix,         \* cleanAndParseJson on its own: the text before the JSON,
  body,           \*   the JSON (or what stands in its place),
  suffix,         \*   the text after it,
  parsed,         \*   and what the call returned
  priceResponse,  \* fetchFinMindPrice on its own: what fetch() comes back with
  fetchedPrice    \*   and the promise the call returned

vars == <<settings, portfolio, transactions, analyses, loadingStates, sellItem,
          alerts, now, bought, apiKey, pc, realTimePrice, supportingData, requests,
          result, watchlist, adviceCalls, overallAdvice, isAdviceLoading,
          localStorage, fromWatchlist,
          prefix, body, suffix, parsed, priceResponse, fetchedPrice>>

ledger == <<settings, portfolio, transactions>>
pipeline == <<pc, realTimePrice, supportingData, requests, result>>
\* what no handler of the application writes
env == <<apiKey, prefix, body, suffix, parsed, priceResponse, fetchedPrice>>
\* the clock and the count of buys
clock == <<now, bought>>
\* the watchlist and the portfolio advice
desk == <<watchlist, adviceCalls, overallAdvice, isAdviceLoading>>

NotCalled == [called |-> FALSE, threw |-> FALSE, value |-> <<>>]

\* ------------------------------------------------------------ persistence
\* null in the place of a number
JsonNull == [n |-> 0, d |-> 0 - 1]

\* a number written as it is
JSONstringifyNumber_asIs(x) == x
\* the value JSON.stringify writes for a number: null for NaN and the
\* infinities
JSONstringifyNumber(x) == IF x.d = 0 THEN JsonNull ELSE x

\* the JSON values JSON.stringify writes for the four states; the integers
\* and strings of the records are written as they are
JSONstringifySettings(s) == [s EXCEPT !.feeRate = JSONstringifyNumber(@)]
JSONstringifyPortfolio(p) ==
  [i \in 1..Len(p) |-> [p[i] EXCEPT !.avgCost = JSONstringifyNumber(@)]]
JSONstringifyTransactions(t) ==
  [i \in 1..Len(t) |-> [t[i] EXCEPT !.realizedPl = JSONstringifyNumber(@),
                                    !.returnRate = JSONstringifyNumber(@)]]
JSONstringifyWatchlist(w) == w

\* what the four persistence effects leave in the storage
Stored ==
  [ settings |-> Some(JSONstringifySettings(settings)),
    portfolio |-> Some(JSONstringifyPortfolio(portfolio)),
    watchlist |-> Some(JSONstringifyWatchlist(watchlist)),
    transactions |-> Some(JSONstringifyTransactions(transactions)) ]

\* saved ? JSON.parse(saved) : fallback
Load(saved, fallback) == IF saved = None THEN fallback ELSE saved[1]

\* an empty storage: the application has not run before
EmptyStorage ==
  [settings |-> None, portfolio |-> None, watchlist |-> None, transactions |-> None]

\* the fee rate 0.1425
DefaultFeeRate == [n |-> 57, d |-> 400]
DefaultSettings == [feeRate |-> DefaultFeeRate, cash |-> InitCash]
\* no price request under way, and none answered
NoResponse == HttpResponse(FALSE, "", <<>>)
NotFetched == [called |-> FALSE, rejected |-> FALSE, value |-> None]

InitApp ==
  /\ settings = Load(EmptyStorage.settings, DefaultSettings)
  /\ portfolio = Load(EmptyStorage.portfolio, <<>>)
  /\ transactions = Load(EmptyStorage.transactions, <<>>)
  /\ analyses = [s \in Symbols |-> NoAnalysis]
  /\ loadingStates = [s \in Symbols |-> FALSE]
  /\ sellItem = None
  /\ alerts = 0
  /\ now = 0
  /\ bought = 0
  /\ pc = [s \in Symbols |-> "idle"]
  /\ realTimePrice = [s \in Symbols |-> None]
  /\ supportingData = [s \in Symbols |-> ""]
  /\ requests = [s \in Symbols |-> <<>>]
  /\ result = [s \in Symbols |-> Pending]
  /\ watchlist = Load(EmptyStorage.watchlist, <<>>)
  /\ adviceCalls = <<>>
  /\ overallAdvice = ""
  /\ isAdviceLoading = FALSE
  /\ localStorage = Stored
  /\ fromWatchlist = [s \in Symbols |-> FALSE]

Init ==
  /\ InitApp
  /\ apiKey \in BOOLEAN
  /\ prefix = <<>>
  /\ body = <<>>
  /\ suffix = <<>>
  /\ parsed = NotCalled
  /\ priceResponse = NoResponse
  /\ fetchedPrice = NotFetched

\* time passes
Tick ==
  /\ now < MaxTime
  /\ now' = now + 1
  /\ UNCHANGED <<bought, ledger, analyses, loadingStates, sellItem, alerts, env, desk,
                 pipeline, localStorage, fromWatchlist>>

\* ------------------------------------------------------------ the pipeline
\* handleAnalyze without its guard: a call is started whatever the flag says
AnalyzeStart_unguarded(symbol) ==
  /\ loadingStates' = [loadingStates EXCEPT ![symbol] = TRUE]
  /\ pc' = [pc EXCEPT ![symbol] = "price"]
  /\ requests' = [requests EXCEPT ![symbol] = <<"price">>]
  /\ result' = [result EXCEPT ![symbol] = Pending]
  /\ realTimePrice' = [realTimePrice EXCEPT ![symbol] = None]
  /\ supportingData' = [supportingData EXCEPT ![symbol] = ""]

\* handleAnalyze(symbol) up to its first await: unless the symbol is loading,
\* raise its loading flag and start analyzeStockWithGemini, which sends the
\* price request
AnalyzeStart(symbol) ==
  IF loadingStates[symbol]
  THEN UNCHANGED <<loadingStates, pipeline>>
  ELSE /\ loadingStates' = [loadingStates EXCEPT ![symbol] = TRUE]
       /\ pc' = [pc EXCEPT ![symbol] = "price"]
       /\ requests' = [requests EXCEPT ![symbol] = <<"price">>]
       /\ result' = [result EXCEPT ![symbol] = Pending]
       /\ realTimePrice' = [realTimePrice EXCEPT ![symbol] = None]
       /\ supportingData' = [supportingData EXCEPT ![symbol] = ""]

\* a failed call that stores an estimate in place of the analysis
AnalyzeRejected_estimate(symbol, why) ==
  /\ result' = [result EXCEPT ![symbol] = Rejected(why)]
  /\ pc' = [pc EXCEPT ![symbol] = "idle"]
  /\ loadingStates' = [loadingStates EXCEPT ![symbol] = FALSE]
  /\ realTimePrice' = [realTimePrice EXCEPT ![symbol] = None]
  /\ analyses' = [analyses EXCEPT ![symbol] =
                    [present |-> TRUE, companyName |-> symbol,
                     currentPrice |-> Some(0), advice |-> NoAdvice]]
  /\ UNCHANGED <<ledger, sellItem, alerts, clock, env, desk, requests,
                 supportingData, localStorage>>
  /\ fromWatchlist' = [fromWatchlist EXCEPT ![symbol] = FALSE]

\* a failed call without the finally of handleAnalyze: the flag stays up
AnalyzeRejected_noFinally(symbol, why) ==
  /\ result' = [result EXCEPT ![symbol] = Rejected(why)]
  /\ pc' = [pc EXCEPT ![symbol] = "idle"]
  /\ realTimePrice' = [realTimePrice EXCEPT ![symbol] = None]
  /\ UNCHANGED <<ledger, analyses, loadingStates, sellItem, alerts, clock, env,
                 desk, requests, supportingData, localStorage>>
  /\ fromWatchlist' = [fromWatchlist EXCEPT ![symbol] = FALSE]

\* the call of handleAnalyze rejects: catch logs the error, finally lowers
\* the loading flag
AnalyzeRejected(symbol, why) ==
  /\ result' = [result EXCEPT ![symbol] = Rejected(why)]
  /\ pc' = [pc EXCEPT ![symbol] = "idle"]
  /\ loadingStates' = [loadingStates EXCEPT ![symbol] = FALSE]
  /\ realTimePrice' = [realTimePrice EXCEPT ![symbol] = None]
  /\ UNCHANGED <<ledger, analyses, sellItem, alerts, clock, env, desk, requests,
                 supportingData, localStorage>>
  /\ fromWatchlist' = [fromWatchlist EXCEPT ![symbol] = FALSE]

\* the check of step 1 left out
PriceMissing_never(price) == FALSE

\* realTimePrice === null || isNaN(realTimePrice)
PriceMissing(price) == price = None

\* the price request comes back
PriceResponse(symbol, response) ==
  /\ pc[symbol] = "price"
  /\ LET fetched == fetchFinMindPrice(response)
         price == fetched.value
     IN  IF fetched.rejected
         THEN AnalyzeRejected(symbol, "price request failed")
         ELSE IF PriceMissing(price)
         THEN AnalyzeRejected(symbol, "no price")
         ELSE IF ~apiKey
         THEN AnalyzeRejected(symbol, "no api key")
         ELSE /\ realTimePrice' = [realTimePrice EXCEPT ![symbol] = price]
              /\ pc' = [pc EXCEPT ![symbol] = "sleep 500"]
              /\ UNCHANGED <<ledger, analyses, loadingStates, sellItem, alerts,
                             clock, env, desk, supportingData, requests, result,
                             localStorage, fromWatchlist>>

\* sleep(500) is over: fetchStockSupportingData sends its request
SupportRequest(symbol) ==
  /\ pc[symbol] = "sleep 500"
  /\ pc' = [pc EXCEPT ![symbol] = "support"]
  /\ requests' = [requests EXCEPT ![symbol] = Append(@, "support")]
  /\ UNCHANGED <<ledger, analyses, loadingStates, sellItem, alerts, clock,
                 env, desk, realTimePrice, supportingData, result,
                 localStorage, fromWatchlist>>

\* fetchStockSupportingData without its catch: a failed request ends the call
SupportResponse_throws(symbol, ok) ==
  /\ pc[symbol] = "support"
  /\ IF ok
     THEN /\ supportingData' = [supportingData EXCEPT ![symbol] = "text"]
          /\ pc' = [pc EXCEPT ![symbol] = "sleep 200"]
          /\ UNCHANGED <<ledger, analyses, loadingStates, sellItem, alerts,
                         clock, env, desk, realTimePrice, requests, result,
                         localStorage, fromWatchlist>>
     ELSE AnalyzeRejected(symbol, "support failed")

\* the supporting-data request comes back or fails
SupportResponse(symbol, ok) ==
  /\ pc[symbol] = "support"
  /\ supportingData' = [supportingData EXCEPT ![symbol] =
                          IF ok THEN "text" ELSE NoSupportingData]
  /\ pc' = [pc EXCEPT ![symbol] = "sleep 200"]
  /\ UNCHANGED <<ledger, analyses, loadingStates, sellItem, alerts, clock,
                 env, desk, realTimePrice, requests, result, localStorage,
                 fromWatchlist>>

\* sleep(200) is over: transformDataToJson sends its request
TransformRequest(symbol) ==
  /\ pc[symbol] = "sleep 200"
  /\ pc' = [pc EXCEPT ![symbol] = "transform"]
  /\ requests' = [requests EXCEPT ![symbol] = Append(@, "transform")]
  /\ UNCHANGED <<ledger, analyses, loadingStates, sellItem, alerts, clock,
                 env, desk, realTimePrice, supportingData, result,
                 localStorage, fromWatchlist>>

\* a failed JSON-structuring request sent again
TransformFailure_retries(symbol) ==
  /\ pc[symbol] = "transform"
  /\ Len(requests[symbol]) < 4
  /\ requests' = [requests EXCEPT ![symbol] = Append(@, "transform")]
  /\ UNCHANGED <<ledger, analyses, loadingStates, sellItem, alerts, clock,
                 env, desk, pc, realTimePrice, supportingData, result,
                 localStorage, fromWatchlist>>

\* the JSON-structuring request fails: transformDataToJson throws
TransformFailure(symbol) ==
  /\ pc[symbol] = "transform"
  /\ AnalyzeRejected(symbol, "transform failed")

\* every position renamed, whatever its symbol
NamedPortfolio_all(prev, symbol, analysis) ==
  [i \in 1..Len(prev) |-> [prev[i] EXCEPT !.name = analysis.companyName]]
\* the portfolio after handleAnalyze has set the display names:
\* prev.map(p => p.symbol === symbol ? {...p, name: analysis.companyName} : p)
NamedPortfolio(prev, symbol, analysis) ==
  [i \in 1..Len(prev) |->
     IF prev[i].symbol = symbol
     THEN [prev[i] EXCEPT !.name = analysis.companyName]
     ELSE prev[i]]

\* a cache that keeps the newest analysis alone
StoredAnalyses_replaces(prev, symbol, analysis) ==
  [s \in Symbols |-> IF s = symbol THEN analysis ELSE NoAnalysis]
\* the cache after setAnalyses(prev => ({...prev, [symbol]: analysis}))
StoredAnalyses(prev, symbol, analysis) == [prev EXCEPT ![symbol] = analysis]

\* the JSON-structuring request comes back with a text: the analysis is
\* built from the recovered JSON and handleAnalyze stores it
TransformResponse(symbol, text) ==
  /\ pc[symbol] = "transform"
  /\ LET data == RecoveredJson[text]
     IN  IF data = <<"N">>
         THEN \* data.prevClose on null is a TypeError
              AnalyzeRejected(symbol, "type error")
         ELSE LET analysis == BuildAnalysis(symbol, data)
              IN  /\ analyses' = StoredAnalyses(analyses, symbol, analysis)
                  /\ portfolio' = NamedPortfolio(portfolio, symbol, analysis)
                  /\ loadingStates' = [loadingStates EXCEPT ![symbol] = FALSE]
                  /\ pc' = [pc EXCEPT ![symbol] = "idle"]
                  /\ result' = [result EXCEPT ![symbol] = Fulfilled]
                  /\ realTimePrice' = [realTimePrice EXCEPT ![symbol] = None]
                  /\ UNCHANGED <<settings, transactions, sellItem, alerts, clock,
                                 env, desk, requests, supportingData>>
                  /\ localStorage' = Stored'
                  /\ fromWatchlist' = [fromWatchlist EXCEPT ![symbol] = FALSE]

\* -------------------------------------------------------------- the ledger
\* The sell dialog is a full-screen overlay above the page: while it is open
\* the page's own buttons and forms are out of reach.
PageReachable == sellItem = None

\* the cost of a buy, the fee forgotten
totalCost_noFee(price, shares, fee) == price * shares
\* the cost of a buy
totalCost(price, shares, fee) == (price * shares) + fee

\* the yield of a sale, the fee added for subtracted
revenue_plusFee(price, sharesToSell, fee) == (price * sharesToSell) + fee
\* the yield of a sale
revenue(price, sharesToSell, fee) == (price * sharesToSell) - fee

\* the realized profit, the fee left out of the proceeds
profit_noFee(item, price, sharesToSell, fee) ==
  Sub(price * sharesToSell, Mul(item.avgCost, sharesToSell))
\* the realized profit of selling sharesToSell shares of item
profit(item, price, sharesToSell, fee) ==
  Sub(revenue(price, sharesToSell, fee), Mul(item.avgCost, sharesToSell))

\* a sale that finds its position by the symbol instead of the id
SoldPortfolio_bySymbol(prev, item, sharesToSell) ==
  IF sharesToSell = item.shares
  THEN SelectSeq(prev, LAMBDA p : p.symbol # item.symbol)
  ELSE [i \in 1..Len(prev) |->
          IF prev[i].symbol = item.symbol
          THEN [prev[i] EXCEPT !.shares = @ - sharesToSell]
          ELSE prev[i]]

\* a sale that removes the position however many shares are sold
SoldPortfolio_removes(prev, item, sharesToSell) ==
  SelectSeq(prev, LAMBDA p : p.id # item.id)

\* the portfolio after an accepted sale of sharesToSell shares of item
SoldPortfolio(prev, item, sharesToSell) ==
  IF sharesToSell = item.shares
  THEN SelectSeq(prev, LAMBDA p : p.id # item.id)
  ELSE [i \in 1..Len(prev) |->
          IF prev[i].id = item.id
          THEN [prev[i] EXCEPT !.shares = @ - sharesToSell]
          ELSE prev[i]]

\* a sale of more shares than are held let through
InvalidSell_allowsOversell(sharesToSell, item) == sharesToSell <= 0
\* sharesToSell <= 0 || sharesToSell > sellItem.shares
InvalidSell(sharesToSell, item) == sharesToSell <= 0 \/ sharesToSell > item.shares

\* a log that keeps the newest record first
LoggedTransactions_prepends(prev, transaction) == <<transaction>> \o prev
\* the transaction log after a sale: [...prev, transaction]
LoggedTransactions(prev, transaction) == Append(prev, transaction)

\* the symbols of the positions and of the watchlist
AllSymbols ==
  {portfolio[i].symbol : i \in 1..Len(portfolio)} \cup
  {watchlist[i].symbol : i \in 1..Len(watchlist)}

\* the refresh button of a position's card or of a watchlist row
handleAnalyze(symbol) ==
  /\ PageReachable
  /\ symbol \in AllSymbols
  /\ ~loadingStates[symbol]
  /\ AnalyzeStart(symbol)
  /\ UNCHANGED <<ledger, analyses, sellItem, alerts, clock, env, desk, localStorage,
                 fromWatchlist>>

\* the "refresh data" button: handleAnalyze is called for every symbol in
\* turn and none of the calls is awaited, so each symbol that is not loading
\* has its price request sent before the handler returns
handleRefreshAll ==
  /\ PageReachable
  /\ LET starting == {symbol \in AllSymbols : ~loadingStates[symbol]}
     IN  /\ starting # {}
         /\ loadingStates' = [s \in Symbols |-> s \in starting \/ loadingStates[s]]
         /\ pc' = [s \in Symbols |-> IF s \in starting THEN "price" ELSE pc[s]]
         /\ requests' = [s \in Symbols |->
                           IF s \in starting THEN <<"price">> ELSE requests[s]]
         /\ result' = [s \in Symbols |-> IF s \in starting THEN Pending ELSE result[s]]
         /\ realTimePrice' = [s \in Symbols |->
                                IF s \in starting THEN None ELSE realTimePrice[s]]
         /\ supportingData' = [s \in Symbols |->
                                 IF s \in starting THEN "" ELSE supportingData[s]]
  /\ UNCHANGED <<ledger, analyses, sellItem, alerts, clock, env, desk, localStorage,
                 fromWatchlist>>

\* a test that finds no symbol on the list
OnWatchlist_never(list, symbol) == FALSE
\* watchlist.some(w => w.symbol === symbol)
OnWatchlist(list, symbol) == \E i \in 1..Len(list) : list[i].symbol = symbol

\* the watch button of a card, or the watchlist's add form, with a symbol;
\* two entries are not made in the same millisecond
handleAddToWatchlist(symbol) ==
  /\ PageReachable
  /\ ~OnWatchlist(watchlist, symbol)
  /\ \A i \in 1..Len(watchlist) : watchlist[i].id # now
  /\ watchlist' = Append(watchlist, [id |-> now, symbol |-> symbol])
  /\ IF ~analyses[symbol].present
     THEN /\ AnalyzeStart(symbol)
          /\ fromWatchlist' = [fromWatchlist EXCEPT ![symbol] =
                                 @ \/ ~loadingStates[symbol]]
     ELSE UNCHANGED <<loadingStates, pipeline, fromWatchlist>>
  /\ UNCHANGED <<ledger, analyses, sellItem, alerts, clock, env, adviceCalls,
                 overallAdvice, isAdviceLoading>>
  /\ localStorage' = Stored'

\* the remove button of a watchlist row:
\* setWatchlist(prev => prev.filter(w => w.id !== id))
onRemoveWatch(id) ==
  /\ PageReachable
  /\ \E i \in 1..Len(watchlist) : watchlist[i].id = id
  /\ watchlist' = SelectSeq(watchlist, LAMBDA w : w.id # id)
  /\ UNCHANGED <<ledger, analyses, loadingStates, sellItem, alerts, clock, env,
                 pipeline, adviceCalls, overallAdvice, isAdviceLoading,
                 fromWatchlist>>
  /\ localStorage' = Stored'

\* the add form is submitted with a symbol, shares, a price and a fee; the
\* form is emptied by every submission and filling it takes more than a
\* millisecond, so Date.now() has moved on since the buy before
handleAddStock(newSymbol, shares, price, fee) ==
  /\ PageReachable
  /\ bought < MaxBuys
  /\ \A i \in 1..Len(portfolio) : portfolio[i].id # now
  /\ bought' = bought + 1
  /\ LET avgCost == Div(totalCost(price, shares, fee), shares)
         newItem == [ id |-> now,
                      symbol |-> newSymbol,
                      name |-> IF analyses[newSymbol].present
                               THEN analyses[newSymbol].companyName
                               ELSE newSymbol,
                      shares |-> shares,
                      avgCost |-> avgCost ]
     IN  /\ portfolio' = Append(portfolio, newItem)
         /\ settings' = [settings EXCEPT !.cash = @ - totalCost(price, shares, fee)]
         /\ AnalyzeStart(newItem.symbol)
  /\ UNCHANGED <<transactions, analyses, sellItem, alerts, now, env, desk,
                 fromWatchlist>>
  /\ localStorage' = Stored'

\* a removal that takes the symbol off the watchlist as well
onRemove_unwatches(id) ==
  /\ PageReachable
  /\ \E i \in 1..Len(portfolio) : portfolio[i].id = id
  /\ portfolio' = SelectSeq(portfolio, LAMBDA p : p.id # id)
  /\ watchlist' = SelectSeq(watchlist, LAMBDA w :
                     \A i \in 1..Len(portfolio) :
                        portfolio[i].id = id => portfolio[i].symbol # w.symbol)
  /\ UNCHANGED <<settings, transactions, analyses, loadingStates, sellItem,
                 alerts, clock, env, adviceCalls, overallAdvice,
                 isAdviceLoading, pipeline, fromWatchlist>>
  /\ localStorage' = Stored'

\* the remove button of a position's card
onRemove(id) ==
  /\ PageReachable
  /\ \E i \in 1..Len(portfolio) : portfolio[i].id = id
  /\ portfolio' = SelectSeq(portfolio, LAMBDA p : p.id # id)
  /\ UNCHANGED <<settings, transactions, analyses, loadingStates, sellItem,
                 alerts, clock, env, desk, pipeline, fromWatchlist>>
  /\ localStorage' = Stored'

\* the sell button of a position's card
openSellModal(i) ==
  /\ PageReachable
  /\ i \in 1..Len(portfolio)
  /\ sellItem' = Some(portfolio[i])
  /\ UNCHANGED <<ledger, analyses, loadingStates, alerts, clock, env, desk, pipeline, localStorage,
                 fromWatchlist>>

\* the close and cancel buttons of the sell dialog
closeSellModal ==
  /\ sellItem # None
  /\ sellItem' = None
  /\ UNCHANGED <<ledger, analyses, loadingStates, alerts, clock, env, desk, pipeline, localStorage,
                 fromWatchlist>>

\* the sell dialog is submitted with shares, a price and a fee
handleSellStock(sharesToSell, price, fee) ==
  /\ sellItem # None
  /\ LET item == sellItem[1]
     IN  IF InvalidSell(sharesToSell, item)
         THEN /\ alerts < MaxAlerts
              /\ alerts' = alerts + 1
              /\ UNCHANGED <<ledger, sellItem>>
         ELSE LET cost == Mul(item.avgCost, sharesToSell)
                  realizedPl == profit(item, price, sharesToSell, fee)
                  returnRate == IF Positive(cost)
                                THEN Ratio100(realizedPl, cost) ELSE Num(0)
                  transaction == [ id |-> now,
                                   symbol |-> item.symbol,
                                   name |-> item.name,
                                   type |-> "SELL",
                                   shares |-> sharesToSell,
                                   price |-> price,
                                   fee |-> fee,
                                   realizedPl |-> realizedPl,
                                   returnRate |-> returnRate ]
              IN  /\ Len(transactions) < MaxTx
                  /\ transactions' = LoggedTransactions(transactions, transaction)
                  /\ settings' = [settings EXCEPT !.cash =
                                    @ + revenue(price, sharesToSell, fee)]
                  /\ portfolio' = SoldPortfolio(portfolio, item, sharesToSell)
                  /\ sellItem' = None
                  /\ UNCHANGED alerts
  /\ UNCHANGED <<analyses, loadingStates, clock, env, desk, pipeline,
                 fromWatchlist>>
  /\ localStorage' = Stored'

\* ------------------------------------------------- the portfolio advice
\* what a generateContent request can come back with: a response with a
\* text, a response without one, a failure whose message holds "429" (the
\* rate limit), a failure with another message
AiOutcomes == {"text", "empty", "429", "error"}

\* the texts getOverallPortfolioAdvice and its stages can give
MarketText == "market trends"
NoMarketText == "no market information"
MarketFailed == "market information connection failed"
StrategyText == "strategy"
NoStrategyText == "analysis generation failed"
AdviceFailed == "overall advice unavailable for now"

\* what fetchMarketTrends returns: its catch turns every failure into a text
fetchMarketTrends(outcome) ==
  IF outcome = "text" THEN MarketText
  ELSE IF outcome = "empty" THEN NoMarketText
  ELSE MarketFailed

\* what analyzePortfolioStrategy does: it has no catch of its own
analyzePortfolioStrategy(outcome) ==
  IF outcome = "text" THEN [threw |-> FALSE, value |-> StrategyText]
  ELSE IF outcome = "empty" THEN [threw |-> FALSE, value |-> NoStrategyText]
  ELSE [threw |-> TRUE, value |-> outcome]

\* the catch of getOverallPortfolioAdvice: the text it returns for an error
AdviceForError(e) == AdviceFailed

\* a call of getOverallPortfolioAdvice that has sent its first request;
\* failures are the errors its requests ended with
NewAdviceCall ==
  [pc |-> "trends", requests |-> <<"trends">>, marketTrends |-> "",
   failures |-> <<>>, result |-> Pending, value |-> ""]

\* the "AI strategy" button (it is not disabled while an advice is loading):
\* handleGetPortfolioAdvice up to its await.  Without an API key getAiClient
\* throws outside the try of getOverallPortfolioAdvice: the call rejects and
\* the handler ends at its await.
handleGetPortfolioAdvice ==
  /\ PageReachable
  /\ Len(adviceCalls) < MaxAdviceCalls
  /\ isAdviceLoading' = TRUE
  /\ adviceCalls' = Append(adviceCalls,
       IF apiKey THEN NewAdviceCall
       ELSE [NewAdviceCall EXCEPT !.pc = "done", !.requests = <<>>,
                                  !.result = Rejected("no api key")])
  /\ UNCHANGED <<ledger, analyses, loadingStates, sellItem, alerts, clock, env,
                 pipeline, watchlist, overallAdvice, localStorage,
                 fromWatchlist>>

\* the market-trend request of call c comes back
TrendsResponse(c, outcome) ==
  /\ c \in 1..Len(adviceCalls)
  /\ adviceCalls[c].pc = "trends"
  /\ adviceCalls' = [adviceCalls EXCEPT
                       ![c].pc = "sleep 1000",
                       ![c].marketTrends = fetchMarketTrends(outcome),
                       ![c].failures = IF outcome \in {"429", "error"}
                                       THEN Append(@, outcome) ELSE @]
  /\ UNCHANGED <<ledger, analyses, loadingStates, sellItem, alerts, clock, env,
                 pipeline, watchlist, overallAdvice, isAdviceLoading,
                 localStorage, fromWatchlist>>

\* the strategy request sent while the market-trend request is in flight
StrategyRequest_early(c) ==
  /\ c \in 1..Len(adviceCalls)
  /\ adviceCalls[c].pc \in {"trends", "sleep 1000"}
  /\ adviceCalls' = [adviceCalls EXCEPT ![c].pc = "strategy",
                                         ![c].requests = Append(@, "strategy")]
  /\ UNCHANGED <<ledger, analyses, loadingStates, sellItem, alerts, clock, env,
                 pipeline, watchlist, overallAdvice, isAdviceLoading,
                 localStorage, fromWatchlist>>

\* sleep(1000) of call c is over: analyzePortfolioStrategy sends its request
StrategyRequest(c) ==
  /\ c \in 1..Len(adviceCalls)
  /\ adviceCalls[c].pc = "sleep 1000"
  /\ adviceCalls' = [adviceCalls EXCEPT ![c].pc = "strategy",
                                         ![c].requests = Append(@, "strategy")]
  /\ UNCHANGED <<ledger, analyses, loadingStates, sellItem, alerts, clock, env,
                 pipeline, watchlist, overallAdvice, isAdviceLoading,
                 localStorage, fromWatchlist>>

\* the strategy request of call c comes back: the call resolves and
\* handleGetPortfolioAdvice shows the advice and lowers its loading flag
StrategyResponse(c, outcome) ==
  /\ c \in 1..Len(adviceCalls)
  /\ adviceCalls[c].pc = "strategy"
  /\ LET r == analyzePortfolioStrategy(outcome)
         advice == IF r.threw THEN AdviceForError(r.value) ELSE r.value
     IN  /\ adviceCalls' = [adviceCalls EXCEPT
                               ![c].pc = "done",
                               ![c].failures = IF r.threw THEN Append(@, r.value) ELSE @,
                               ![c].result = Fulfilled,
                               ![c].value = advice]
         /\ overallAdvice' = advice
         /\ isAdviceLoading' = FALSE
  /\ UNCHANGED <<ledger, analyses, loadingStates, sellItem, alerts, clock, env,
                 pipeline, watchlist, localStorage, fromWatchlist>>

\* ------------------------------------------------------- specifications
\* The whole application, the stress on the analysis pipeline: every answer
\* of the price API and of the AI, few form inputs.
FewShares == {MaxShares}

Next ==
  \/ Tick
  \/ \E symbol \in Symbols, shares \in FewShares :
        handleAddStock(symbol, shares, 1, 0)
  \/ \E id \in 0..MaxTime : onRemove(id)
  \/ \E symbol \in Symbols : handleAnalyze(symbol)
  \/ handleRefreshAll
  \/ \E symbol \in Symbols, response \in FinMindResponses :
        PriceResponse(symbol, response)
  \/ \E symbol \in Symbols : SupportRequest(symbol)
  \/ \E symbol \in Symbols, ok \in BOOLEAN : SupportResponse(symbol, ok)
  \/ \E symbol \in Symbols : TransformRequest(symbol)
  \/ \E symbol \in Symbols : TransformFailure(symbol)
  \/ \E symbol \in Symbols, text \in AiTexts : TransformResponse(symbol, text)

Spec == Init /\ [][Next]_vars

\* The same application when every timer fires and every request of a
\* running call is answered or fails in the end: each step of a call that
\* can be taken is taken.
PipelineStep(symbol) ==
  \/ \E response \in FinMindResponses : PriceResponse(symbol, response)
  \/ SupportRequest(symbol)
  \/ \E ok \in BOOLEAN : SupportResponse(symbol, ok)
  \/ TransformRequest(symbol)
  \/ TransformFailure(symbol)
  \/ \E text \in AiTexts : TransformResponse(symbol, text)

SpecFair == Spec /\ \A symbol \in Symbols : WF_vars(PipelineStep(symbol))

\* The ledger, the stress on the forms: every form input, one symbol, and a
\* price API that is out of reach, so that every analysis ends at step 1.
NoPriceResponses == {r \in FinMindResponses : r.kind = "exception"}

NextLedger ==
  \/ Tick
  \/ \E shares \in ShareInputs, price \in PriceInputs, fee \in FeeInputs :
        handleAddStock("2330", shares, price, fee)
  \/ \E id \in 0..MaxTime : onRemove(id)
  \/ \E i \in 1..MaxBuys : openSellModal(i)
  \/ closeSellModal
  \/ \E shares \in ShareInputs, price \in PriceInputs, fee \in FeeInputs :
        handleSellStock(shares, price, fee)
  \/ \E response \in NoPriceResponses : PriceResponse("2330", response)

SpecLedger == Init /\ [][NextLedger]_vars

\* The ledger under buys and sells alone: no position is removed by hand.
NextTrade ==
  \/ Tick
  \/ \E shares \in ShareInputs, price \in PriceInputs, fee \in FeeInputs :
        handleAddStock("2330", shares, price, fee)
  \/ \E i \in 1..MaxBuys : openSellModal(i)
  \/ closeSellModal
  \/ \E shares \in ShareInputs, price \in PriceInputs, fee \in FeeInputs :
        handleSellStock(shares, price, fee)
  \/ \E response \in NoPriceResponses : PriceResponse("2330", response)

SpecTrade == Init /\ [][NextTrade]_vars

\* The portfolio advice next to the analysis of one watched symbol.
FewResponses == {r \in FinMindResponses : r.msg = "success" /\ Len(r.data) # 1}
FewTexts == {t \in AiTexts : t # UndefinedText /\ Len(t) > 3}

NextAdvice ==
  \/ handleGetPortfolioAdvice
  \/ \E c \in 1..MaxAdviceCalls, outcome \in AiOutcomes : TrendsResponse(c, outcome)
  \/ \E c \in 1..MaxAdviceCalls : StrategyRequest(c)
  \/ \E c \in 1..MaxAdviceCalls, outcome \in AiOutcomes : StrategyResponse(c, outcome)
  \/ handleAddToWatchlist("2330")
  \/ handleRefreshAll
  \/ \E response \in FewResponses : PriceResponse("2330", response)
  \/ SupportRequest("2330")
  \/ \E ok \in BOOLEAN : SupportResponse("2330", ok)
  \/ TransformRequest("2330")
  \/ TransformFailure("2330")
  \/ \E text \in FewTexts : TransformResponse("2330", text)

SpecAdvice == Init /\ [][NextAdvice]_vars

\* cleanAndParseJson on its own: a text made of a prefix, a body and a suffix
\* is handed to the function once.
MaxAffix == 1
AffixToks == {"w", "x", "F", "J", "{", "}", "[", "]", "q", "s", ","}
Affixes == UNION {[1..n -> AffixToks] : n \in 0..MaxAffix}
Bodies ==
  { <<>>,
    <<"{", "}">>,
    <<"{", "s", ":", "1", "}">>,
    <<"w", "{", "s", ":", "1", ",", "n", ":", "[", "2", "]", "}", "w">>,
    <<"{", "s", ":", "q", "F", "q", "}">>,
    <<"{", "s", ":", "q", "J", "w", "x", "q", "}">>,
    <<"{", "s", ":", "1", ",", "}">>,
    <<"{", "s", "1", "}">>,
    <<"1">>,
    <<"x">> }

\* the text handed to the function; a missing text has no prefix or suffix
Text == IF body = UndefinedText THEN UndefinedText ELSE prefix \o body \o suffix

InitJson ==
  /\ InitApp
  /\ apiKey = TRUE
  /\ body \in Bodies \cup {UndefinedText}
  /\ prefix \in IF body = UndefinedText THEN {<<>>} ELSE Affixes
  /\ suffix \in IF body = UndefinedText THEN {<<>>} ELSE Affixes
  /\ parsed = NotCalled
  /\ priceResponse = NoResponse
  /\ fetchedPrice = NotFetched

\* the call cleanAndParseJson(text)
CallCleanAndParseJson ==
  /\ ~parsed.called
  /\ LET r == cleanAndParseJson(Text)
     IN  parsed' = [called |-> TRUE, threw |-> r.threw, value |-> r.value]
  /\ UNCHANGED <<ledger, analyses, loadingStates, sellItem, alerts, clock,
                 pipeline, desk, apiKey, prefix, body, suffix, priceResponse, fetchedPrice,
                 localStorage, fromWatchlist>>

NextJson == CallCleanAndParseJson

SpecJson == InitJson /\ [][NextJson]_vars

\* ------------------------------------------- the watchlist and the storage
\* the page is loaded again: the running calls are gone with the old page,
\* the four states are read from the storage, everything else starts empty,
\* and the persistence effects run on the first render
Restart ==
  /\ settings' = Load(localStorage.settings, DefaultSettings)
  /\ portfolio' = Load(localStorage.portfolio, <<>>)
  /\ watchlist' = Load(localStorage.watchlist, <<>>)
  /\ transactions' = Load(localStorage.transactions, <<>>)
  /\ analyses' = [s \in Symbols |-> NoAnalysis]
  /\ loadingStates' = [s \in Symbols |-> FALSE]
  /\ sellItem' = None
  /\ pc' = [s \in Symbols |-> "idle"]
  /\ realTimePrice' = [s \in Symbols |-> None]
  /\ supportingData' = [s \in Symbols |-> ""]
  /\ requests' = [s \in Symbols |-> <<>>]
  /\ result' = [s \in Symbols |-> Pending]
  /\ adviceCalls' = <<>>
  /\ overallAdvice' = ""
  /\ isAdviceLoading' = FALSE
  /\ fromWatchlist' = [s \in Symbols |-> FALSE]
  /\ UNCHANGED <<alerts, clock, env>>
  /\ localStorage' = Stored'

\* The ledger with the watchlist and reloads of the page: every share count
\* and fee of the buy form, partial and whole sells, one symbol held and
\* watched, and a price API that is out of reach.
NextStore ==
  \/ Tick
  \/ \E shares \in ShareInputs, fee \in FeeInputs :
        handleAddStock("2330", shares, 1, fee)
  \/ \E id \in 0..MaxTime : onRemove(id)
  \/ \E i \in 1..MaxBuys : openSellModal(i)
  \/ closeSellModal
  \/ \E shares \in 1..MaxShares : handleSellStock(shares, 1, 0)
  \/ handleAddToWatchlist("2330")
  \/ \E id \in 0..MaxTime : onRemoveWatch(id)
  \/ \E response \in NoPriceResponses : PriceResponse("2330", response)
  \/ Restart

InitStore == Init /\ apiKey

SpecStore == InitStore /\ [][NextStore]_vars

\* The watchlist beside the ledger: buys and sells of one symbol, removals,
\* watchlist entries of both symbols, refreshes, a price API that fails or
\* answers for the held symbol and fails for the other one, and an AI that
\* answers.
WatchResponses ==
  {r \in FinMindResponses : r.kind = "exception" \/ fetchFinMindPrice(r).value = Some(1)}
WatchTexts == {t \in AiTexts : t # UndefinedText /\ Len(t) > 9}

NextWatch ==
  \/ Tick
  \/ handleAddStock("2330", MaxShares, 1, 0)
  \/ \E id \in 0..MaxTime : onRemove(id)
  \/ \E i \in 1..MaxBuys : openSellModal(i)
  \/ handleSellStock(1, 1, 0)
  \/ \E symbol \in Symbols : handleAddToWatchlist(symbol)
  \/ \E id \in 0..MaxTime : onRemoveWatch(id)
  \/ \E symbol \in Symbols : handleAnalyze(symbol)
  \/ handleRefreshAll
  \/ \E response \in WatchResponses : PriceResponse("2330", response)
  \/ \E response \in NoPriceResponses : PriceResponse("2317", response)
  \/ SupportRequest("2330")
  \/ SupportResponse("2330", TRUE)
  \/ TransformRequest("2330")
  \/ \E text \in WatchTexts : TransformResponse("2330", text)

SpecWatch == InitStore /\ [][NextWatch]_vars

\* --------------------------------------------- fetchFinMindPrice on its own
MaxRecords == 2

\* the closes a record can hold: numbers, strings that are a number, strings
\* that start with one, strings that hold none, null, and no close at all
Closes ==
  {NumberClose(n) : n \in (0 - 1)..MaxClose}
  \cup {StringClose(chars) : chars \in {<<>>, <<"1">>, <<"0">>, <<"-", "1">>,
                                         <<" ", "2">>, <<"1", " ">>, <<"1", "x">>, <<"x">>,
                                         <<"x", "1">>, <<"1", "2">>}}
  \cup {NullClose, UndefinedClose}

Records == {Record(close) : close \in Closes} \cup {NullRecord}

\* the arrays of at most MaxRecords records
RecordArrays == UNION {[1..n -> Records] : n \in 0..MaxRecords}

\* every answer of the price API within these bounds
PriceApiResponses ==
  { [kind |-> kind, ok |-> FALSE, msg |-> "", isArray |-> FALSE, data |-> <<>>] :
      kind \in {"exception", "badbody"} }
  \cup { [kind |-> "http", ok |-> ok, msg |-> msg, isArray |-> FALSE, data |-> <<>>] :
          ok \in BOOLEAN, msg \in {"success", "error"} }
  \cup { HttpResponse(ok, msg, data) :
          ok \in BOOLEAN, msg \in {"success", "error"}, data \in RecordArrays }

InitPrice ==
  /\ InitApp
  /\ apiKey = TRUE
  /\ prefix = <<>>
  /\ body = <<>>
  /\ suffix = <<>>
  /\ parsed = NotCalled
  /\ priceResponse \in PriceApiResponses
  /\ fetchedPrice = NotFetched

\* the call fetchFinMindPrice(symbol), answered by response
CallFetchFinMindPrice ==
  /\ ~fetchedPrice.called
  /\ LET r == fetchFinMindPrice(priceResponse)
     IN  fetchedPrice' = [called |-> TRUE, rejected |-> r.rejected, value |-> r.value]
  /\ UNCHANGED <<ledger, analyses, loadingStates, sellItem, alerts, clock,
                 pipeline, desk, apiKey, prefix, body, suffix, parsed, priceResponse,
                 localStorage, fromWatchlist>>

NextPrice == CallFetchFinMindPrice

SpecPrice == InitPrice /\ [][NextPrice]_vars
\* ------------------------------------------------------------ the claims
\* r is the double a / b: the exact quotient, or for b = 0 the non-finite
\* value the division gives (Infinity, -Infinity, NaN by the sign of a)
IsQuotient(r, a, b) ==
  IF b # 0 THEN r.d > 0 /\ r.n * b = a * r.d
  ELSE r.d = 0 /\ r.n = Sign(a)

\* the sell dialog is submitted with a share count the handler accepts
AcceptedSell(sharesToSell, price, fee) ==
  /\ sellItem # None
  /\ sharesToSell > 0
  /\ sharesToSell <= sellItem[1].shares
  /\ handleSellStock(sharesToSell, price, fee)

\* C1: a buy of s shares at price p with fee f appends one position with
\* shares = s and avgCost = (p*s+f)/s, and takes p*s+f off the cash balance.
C1_BuyCostBasisAndCash ==
  [][\A symbol \in Symbols, s \in ShareInputs, p \in PriceInputs, f \in FeeInputs :
       (bought' # bought /\ handleAddStock(symbol, s, p, f)) =>
         /\ Len(portfolio') = Len(portfolio) + 1
         /\ SubSeq(portfolio', 1, Len(portfolio)) = portfolio
         /\ portfolio'[Len(portfolio')].shares = s
         /\ IsQuotient(portfolio'[Len(portfolio')].avgCost, p * s + f, s)
         /\ settings'.cash = settings.cash - (p * s + f)]_vars

\* a buy of 2 shares at price 1 with fee 1 has been booked: the cost basis is
\* 3/2 and 3 is off the cash balance
C1_Witness ==
  /\ bought = 1
  /\ Len(portfolio) = 1
  /\ portfolio[1].shares = 2
  /\ portfolio[1].avgCost = [n |-> 3, d |-> 2]
  /\ settings.cash = InitCash - 3

\* C2: a full sell (shares sold = shares held) leaves no position with the
\* sold position's id in the portfolio and appends exactly one transaction,
\* whose realizedPl is (price*shares - fee) - avgCost*shares.
C2_FullSellRemovesAndRecords ==
  [][\A n \in ShareInputs, p \in PriceInputs, f \in FeeInputs :
       (AcceptedSell(n, p, f) /\ n = sellItem[1].shares) =>
         LET item == sellItem[1]
             t == transactions'[Len(transactions')]
         IN  /\ \A i \in 1..Len(portfolio') : portfolio'[i].id # item.id
             /\ Len(transactions') = Len(transactions) + 1
             /\ SubSeq(transactions', 1, Len(transactions)) = transactions
             /\ t.realizedPl.d > 0
             /\ t.realizedPl.n * item.avgCost.d =
                  ((p * n - f) * item.avgCost.d - item.avgCost.n * n) * t.realizedPl.d]_vars

\* 2 shares bought at cost basis 3/2 have all been sold at price 1 with fee 1:
\* the position is gone and the transaction books a loss of 2
C2_Witness ==
  /\ bought = 1
  /\ portfolio = <<>>
  /\ Len(transactions) = 1
  /\ transactions[1].shares = 2
  /\ transactions[1].fee = 1
  /\ transactions[1].realizedPl = [n |-> 0 - 2, d |-> 1]

\* C3: after a partial sell (0 < sold < held) the position is still in the
\* portfolio, with shares = original - sold and the avgCost it had.
C3_PartialSellKeepsCostBasis ==
  [][\A n \in ShareInputs, p \in PriceInputs, f \in FeeInputs :
       (AcceptedSell(n, p, f) /\ n < sellItem[1].shares) =>
         LET item == sellItem[1]
         IN  /\ Len(portfolio') = Len(portfolio)
             /\ \E i \in 1..Len(portfolio) :
                  /\ portfolio[i].id = item.id
                  /\ portfolio[i].shares = item.shares
                  /\ portfolio'[i].id = item.id
                  /\ portfolio'[i].shares = item.shares - n
                  /\ portfolio'[i].avgCost = item.avgCost
                  /\ portfolio'[i].avgCost = portfolio[i].avgCost]_vars

\* one of 2 shares bought at cost basis 3/2 has been sold: the position holds
\* 1 share at cost basis 3/2
C3_Witness ==
  /\ Len(transactions) = 1
  /\ transactions[1].shares = 1
  /\ \E i \in 1..Len(portfolio) :
       /\ portfolio[i].shares = 1
       /\ portfolio[i].avgCost = [n |-> 3, d |-> 2]

\* C4: an accepted sell of n shares at price p with fee f adds p*n - f to the
\* cash balance.
C4_SellCreditsCash ==
  [][\A n \in ShareInputs, p \in PriceInputs, f \in FeeInputs :
       AcceptedSell(n, p, f) =>
         settings'.cash = settings.cash + (p * n - f)]_vars

\* after one buy (2 shares, price 1, fee 1) and one sale of 1 share at price 1
\* with fee 1 the cash balance is the initial one less 3 plus 0
C4_Witness ==
  /\ bought = 1
  /\ Len(transactions) = 1
  /\ transactions[1].shares = 1
  /\ transactions[1].fee = 1
  /\ Len(portfolio) = 1
  /\ portfolio[1].avgCost = [n |-> 3, d |-> 2]
  /\ settings.cash = InitCash - 3

\* C5: no position of the portfolio ever has a negative share count.
C5_SharesNeverNegative ==
  \A i \in 1..Len(portfolio) : portfolio[i].shares >= 0

\* C6: when the price fetch returns null the call issues no AI request: an AI
\* request is only ever issued by a call that holds a price, and a call that
\* ended for want of a price has issued the price request alone.
C6_NoAiRequestWithoutPrice ==
  \A symbol \in Symbols :
    /\ pc[symbol] \in {"sleep 500", "support", "sleep 200", "transform"}
         => realTimePrice[symbol] # None
    /\ pc[symbol] \in {"idle", "price", "sleep 500"}
         /\ result[symbol].state = "pending"
         => \A i \in 1..Len(requests[symbol]) : requests[symbol][i] = "price"
    /\ result[symbol] = Rejected("no price") => requests[symbol] = <<"price">>

\* an analysis has ended for want of a price after its price request
C6_Witness ==
  \E symbol \in Symbols :
    /\ result[symbol] = Rejected("no price")
    /\ requests[symbol] = <<"price">>
    /\ pc[symbol] = "idle"

\* what the page renders, the loading spinners aside
Visible == <<settings, portfolio, transactions, analyses, sellItem>>

\* C7: when an analysis started from the UI ends because the price fetch
\* returned null, the user is told: an alert is shown or the rendered state
\* changes.
C7_NullPriceIsShownToUser ==
  [][\A symbol \in Symbols :
       (result[symbol] = Pending /\ result'[symbol] = Rejected("no price")) =>
         (alerts' > alerts \/ Visible' # Visible)]_vars

\* C8: cleanAndParseJson never throws; what it returns is a JSON value found
\* in the text (in a part of the text, or of the text without its code-fence
\* markers), and {} in every other case: for a missing text, an empty text
\* and a text no part of which is a JSON value.
Segments(t) == {SubSeq(t, i, j) : i \in 1..Len(t), j \in 1..Len(t)}
Recoverable(t) ==
  { JSONparse(seg).value :
      seg \in { g \in Segments(t) \cup Segments(StripFences(StripJsonFences(t, 1, FALSE))) :
                  ~JSONparse(g).threw } }

C8_NeverThrowsAndDefaultsToEmpty ==
  parsed.called =>
    /\ ~parsed.threw
    /\ IF Text = UndefinedText \/ Text = <<>>
       THEN parsed.value = EmptyObject
       ELSE parsed.value \in Recoverable(Text) \cup {EmptyObject}

\* the call returned {} for a text in braces no part of which is a JSON value
C8_Witness ==
  /\ parsed.called
  /\ prefix = <<"{">>
  /\ body = <<"x">>
  /\ suffix = <<"}">>
  /\ Recoverable(Text) = {}
  /\ parsed.value = EmptyObject

\* t is the text of a JSON object, white space around it allowed
IsObject(t) == ~JSONparse(t).threw /\ JSONparse(t).value[1] = "{"
WsOnly(t) == \A i \in 1..Len(t) : t[i] = "w"
HasNone(t, toks) == \A i \in 1..Len(t) : t[i] \notin toks

\* C9 as stated: a JSON object with any text before and after it (code
\* fences or other) is returned as parsed.
C9_ObjectInArbitraryTextIsParsed ==
  (parsed.called /\ IsObject(body)) =>
    (~parsed.threw /\ parsed.value = JSONparse(body).value)

\* C9 as amended: the object is returned as parsed when only white space
\* surrounds it, and when it holds no code-fence marker, the text before it
\* holds no brace, bracket or double quote and the text after it holds no
\* closing brace (code fences and plain prose are such texts).
C9_ObjectInPlainTextIsParsed ==
  (/\ parsed.called
   /\ IsObject(body)
   /\ \/ WsOnly(prefix) /\ WsOnly(suffix)
      \/ /\ HasNone(body, {"F", "J"})
         /\ HasNone(prefix, {"{", "[", "q"} \cup StringToks)
         /\ HasNone(suffix, {"}"}))
  => (~parsed.threw /\ parsed.value = JSONparse(body).value)

\* a fenced object came back as the object
C9_Witness ==
  /\ parsed.called
  /\ prefix = <<"J">>
  /\ suffix = <<"F">>
  /\ body = <<"w", "{", "s", ":", "1", ",", "n", ":", "[", "2", "]", "}", "w">>
  /\ parsed.value = <<"{", "s", ":", "1", ",", "n", ":", "[", "2", "]", "}">>

C11_LogIsAppendOnly ==
  [][/\ \/ transactions' = transactions
        \/ /\ Len(transactions') = Len(transactions) + 1
           /\ SubSeq(transactions', 1, Len(transactions)) = transactions
           /\ \E n \in ShareInputs, p \in PriceInputs, f \in FeeInputs :
                AcceptedSell(n, p, f)
     /\ \A n \in ShareInputs, p \in PriceInputs, f \in FeeInputs :
          AcceptedSell(n, p, f) => Len(transactions') = Len(transactions) + 1]_vars

\* two sales are on record, the earlier one (1 share, fee 0) still first
\* after the later one (fee 1) was added
C11_Witness ==
  /\ Len(transactions) = 2
  /\ transactions[1].shares = 1
  /\ transactions[1].fee = 0
  /\ transactions[2].fee = 1

\* a + b on doubles: NaN when one of them is NaN or they are infinities of
\* opposite sign
Plus(a, b) ==
  IF a.d = 0 /\ b.d = 0 THEN (IF a.n = b.n THEN a ELSE [n |-> 0, d |-> 0])
  ELSE IF a.d = 0 THEN a
  ELSE IF b.d = 0 THEN b
  ELSE Div(a.n * b.d + b.n * a.d, a.d * b.d)

\* a === b on doubles: NaN equals nothing
SameNumber(a, b) == a = b /\ ~(a.d = 0 /\ a.n = 0)

\* the sum of avgCost * shares over the positions from the i-th on
RECURSIVE HeldCost(_, _)
HeldCost(items, i) ==
  IF i > Len(items) THEN Num(0)
  ELSE Plus(Mul(items[i].avgCost, items[i].shares), HeldCost(items, i + 1))

\* the sum of realizedPl over the transactions from the i-th on
RECURSIVE RealizedTotal(_, _)
RealizedTotal(log, i) ==
  IF i > Len(log) THEN Num(0)
  ELSE Plus(log[i].realizedPl, RealizedTotal(log, i + 1))

\* C12: under buys and sells alone, cash + the sum of avgCost * shares over
\* the held positions equals the initial cash + the sum of realizedPl over
\* the transactions (after buys only: the held cost equals the cash spent).
C12_CashPlusCostBasisIsConserved ==
  SameNumber(Plus(Num(settings.cash), HeldCost(portfolio, 1)),
             Plus(Num(InitCash), RealizedTotal(transactions, 1)))

\* C13: no position of the portfolio has a share count of zero.
C13_NoZeroSharePosition ==
  \A i \in 1..Len(portfolio) : portfolio[i].shares # 0

\* the external requests that are in flight: those of the analyses and those
\* of the advice calls
AnalysesInFlight == {symbol \in Symbols : pc[symbol] \in {"price", "support", "transform"}}
AdviceInFlight == {c \in 1..Len(adviceCalls) : adviceCalls[c].pc \in {"trends", "strategy"}}

\* C14: at most one external request (price API or AI API) is in flight.
C14_AtMostOneRequestInFlight ==
  Cardinality(AnalysesInFlight) + Cardinality(AdviceInFlight) <= 1

\* C15: the StockAnalysis a call of analyzeStockWithGemini resolves with has
\* the price of step 1 as its currentPrice, whatever the AI answered.
C15_CurrentPriceIsStepOnePrice ==
  [][\A symbol \in Symbols :
       (result[symbol] = Pending /\ result'[symbol] = Fulfilled) =>
         analyses'[symbol].currentPrice = realTimePrice[symbol]]_vars

\* the stages of the two operations, in the order the claim gives them
AnalysisStages == <<"price", "sleep 500", "support", "sleep 200", "transform">>
AdviceStages == <<"trends", "sleep 1000", "strategy", "done">>
Follows(stages, from, to) ==
  \E i \in 1..(Len(stages) - 1) : stages[i] = from /\ stages[i + 1] = to

\* C16: within one call of analyzeStockWithGemini the stages follow each
\* other strictly: price request, its completion, pause, supporting-data
\* request, its completion, pause, JSON-structuring request; an AI request is
\* sent only by the step that ends the pause before it, after the request
\* before it came back.  The same holds in getOverallPortfolioAdvice for
\* market-trend request, pause, strategy request.
C16_StagesAreStrictlyOrdered ==
  [][/\ \A symbol \in Symbols :
          /\ pc'[symbol] # pc[symbol] =>
                \/ pc'[symbol] = "idle"
                \/ pc[symbol] = "idle" /\ pc'[symbol] = "price"
                \/ Follows(AnalysisStages, pc[symbol], pc'[symbol])
          /\ requests'[symbol] # requests[symbol] =>
                \/ pc[symbol] = "idle" /\ requests'[symbol] = <<"price">>
                \/ /\ pc[symbol] = "sleep 500"
                   /\ realTimePrice[symbol] # None
                   /\ requests[symbol] = <<"price">>
                   /\ requests'[symbol] = <<"price", "support">>
                \/ /\ pc[symbol] = "sleep 200"
                   /\ requests[symbol] = <<"price", "support">>
                   /\ requests'[symbol] = <<"price", "support", "transform">>
     /\ \A c \in 1..Len(adviceCalls) :
          /\ adviceCalls'[c].pc # adviceCalls[c].pc =>
                Follows(AdviceStages, adviceCalls[c].pc, adviceCalls'[c].pc)
          /\ adviceCalls'[c].requests # adviceCalls[c].requests =>
                /\ adviceCalls[c].pc = "sleep 1000"
                /\ adviceCalls[c].marketTrends # ""
                /\ adviceCalls[c].requests = <<"trends">>
                /\ adviceCalls'[c].requests = <<"trends", "strategy">>]_vars

\* an analysis and an advice call have both run through all their stages
C16_Witness ==
  /\ requests["2330"] = <<"price", "support", "transform">>
  /\ result["2330"] = Fulfilled
  /\ \E c \in 1..Len(adviceCalls) :
       /\ adviceCalls[c].requests = <<"trends", "strategy">>
       /\ adviceCalls[c].pc = "done"

\* s is t or the beginning of t
IsPrefix(s, t) == Len(s) <= Len(t) /\ s = SubSeq(t, 1, Len(s))

\* a handler that invokes handleAnalyze(symbol) runs
CallerInvokes(symbol) ==
  \/ handleAnalyze(symbol)
  \/ handleRefreshAll
  \/ handleAddToWatchlist(symbol)
  \/ \E shares \in ShareInputs, price \in PriceInputs, fee \in FeeInputs :
        handleAddStock(symbol, shares, price, fee)

\* C17: one call of analyzeStockWithGemini issues at most one price request,
\* one supporting-data request and one JSON-structuring request, whether its
\* stages succeed or fail: a failure of the call sends nothing, and a price
\* request is sent anew only when a handler invokes the operation again.
C17_NoAutomaticRetry ==
  [][\A symbol \in Symbols :
       /\ IsPrefix(requests[symbol], <<"price", "support", "transform">>)
       /\ IsPrefix(requests'[symbol], <<"price", "support", "transform">>)
       /\ pc[symbol] # "idle" =>
            \/ requests'[symbol] = requests[symbol]
            \/ Len(requests'[symbol]) = Len(requests[symbol]) + 1
       /\ (result[symbol] = Pending /\ result'[symbol].state = "rejected") =>
            /\ requests'[symbol] = requests[symbol]
            /\ pc'[symbol] = "idle"
       /\ (pc'[symbol] = "price" /\ pc[symbol] # "price") =>
            /\ pc[symbol] = "idle"
            /\ ~loadingStates[symbol]
            /\ CallerInvokes(symbol)]_vars

\* a call whose search failed and whose JSON-structuring request failed has
\* ended with one request of each kind sent
C17_Witness ==
  \E symbol \in Symbols :
    /\ supportingData[symbol] = NoSupportingData
    /\ result[symbol] = Rejected("transform failed")
    /\ requests[symbol] = <<"price", "support", "transform">>
    /\ pc[symbol] = "idle"

\* C18: a call of getOverallPortfolioAdvice one of whose requests failed with
\* a rate-limit error ("429" in its text) resolves to a rate-limit advisory:
\* a text that is neither the message for other failures nor an advice, with
\* no request sent a second time.
C18_RateLimitGetsItsOwnAdvisory ==
  \A c \in 1..Len(adviceCalls) :
    (/\ adviceCalls[c].pc = "done"
     /\ \E i \in 1..Len(adviceCalls[c].failures) : adviceCalls[c].failures[i] = "429")
    => /\ adviceCalls[c].result = Fulfilled
       /\ adviceCalls[c].value # AdviceForError("error")
       /\ adviceCalls[c].value \notin {StrategyText, NoStrategyText}
       /\ IsPrefix(adviceCalls[c].requests, <<"trends", "strategy">>)

\* C19: an analysis that fails (no price, or a stage that rejects) changes
\* neither the cached analysis of its symbol nor that of any other symbol,
\* nor the portfolio, the cash or the transactions.
C19_FailedAnalysisChangesNothing ==
  [][\A symbol \in Symbols :
       (result[symbol] = Pending /\ result'[symbol].state = "rejected") =>
         /\ analyses' = analyses
         /\ portfolio' = portfolio
         /\ settings' = settings
         /\ transactions' = transactions]_vars

\* a held symbol whose analysis once succeeded (price 2 on record) has had a
\* later analysis fail for want of a price, and the record is still there
C19_Witness ==
  \E symbol \in Symbols :
    /\ result[symbol] = Rejected("no price")
    /\ analyses[symbol].present
    /\ analyses[symbol].currentPrice = Some(2)
    /\ \E i \in 1..Len(portfolio) : portfolio[i].symbol = symbol

\* C20: the cache holds one snapshot per symbol, and a refresh that completes
\* successfully overwrites the snapshot of its symbol with its own result and
\* leaves the snapshots of the other symbols as they are; the refresh that
\* completes is the one started last for its symbol, since none is started
\* for a symbol while one is running.
C20_RefreshOverwritesOwnSnapshot ==
  [][\A symbol \in Symbols :
       /\ DOMAIN analyses' = Symbols
       /\ pc[symbol] # "idle" => loadingStates[symbol]
       /\ (pc'[symbol] = "price" /\ pc[symbol] # "price") => ~loadingStates[symbol]
       /\ (result[symbol] = Pending /\ result'[symbol] = Fulfilled) =>
            /\ \E text \in AiTexts :
                 /\ TransformResponse(symbol, text)
                 /\ analyses'[symbol] =
                      BuildAnalysis(symbol, cleanAndParseJson(text).value)
            /\ \A other \in Symbols \ {symbol} :
                 analyses'[other] = analyses[other]]_vars

\* both symbols have been refreshed successfully, with different answers,
\* and each snapshot is the one of its own refresh
C20_Witness ==
  /\ result["2330"] = Fulfilled
  /\ result["2317"] = Fulfilled
  /\ analyses["2330"] =
       BuildAnalysis("2330", <<"{", "n", ":", "s", ",", "p", ":", "2", "}">>)
  /\ analyses["2317"].currentPrice = Some(1)
  /\ analyses["2317"].advice = "x"

\* C27: a sell whose share count is not greater than 0 or exceeds the shares
\* of the position is rejected: portfolio, cash and transactions are
\* unchanged and the sell dialog stays open on the same position.
C27_RejectedSellChangesNothing ==
  [][\A n \in ShareInputs, p \in PriceInputs, f \in FeeInputs :
       (/\ sellItem # None
        /\ (n <= 0 \/ n > sellItem[1].shares)
        /\ handleSellStock(n, p, f)) =>
         /\ portfolio' = portfolio
         /\ settings' = settings
         /\ transactions' = transactions
         /\ sellItem' = sellItem]_vars

\* a sell was rejected (the alert was shown) on a position of 1 share: the
\* dialog is still open on it and nothing is booked
C27_Witness ==
  /\ alerts = 1
  /\ sellItem # None
  /\ sellItem[1].shares = 1
  /\ transactions = <<>>
  /\ Len(portfolio) = 1
  /\ portfolio[1] = sellItem[1]
  /\ settings.cash = InitCash - totalCost(1, 1, 0)

\* C28: an accepted sell changes only the position the dialog was opened on:
\* every other position, also one of the same symbol, stays in the portfolio
\* with its id, shares and avgCost, and in its order.
C28_SellLeavesOtherPositions ==
  [][\A n \in ShareInputs, p \in PriceInputs, f \in FeeInputs :
       AcceptedSell(n, p, f) =>
         LET others(items) == SelectSeq(items, LAMBDA q : q.id # sellItem[1].id)
         IN  /\ others(portfolio') = others(portfolio)
             /\ Len(portfolio') >= Len(others(portfolio))
             /\ Len(portfolio') <= Len(others(portfolio)) + 1]_vars

\* of two positions of the same symbol (2 shares and 1 share) the one of 2
\* shares has been sold whole; the other one is still held
C28_Witness ==
  /\ bought = 2
  /\ Len(transactions) = 1
  /\ transactions[1].shares = 2
  /\ Len(portfolio) = 1
  /\ portfolio[1].shares = 1
  /\ portfolio[1].symbol = transactions[1].symbol

\* C30: a successful analysis of a symbol changes in the ledger only the
\* display name of the positions with that symbol: the positions, their ids,
\* symbols, shares and avgCost, the cash and the transactions are unchanged.
C30_AnalysisOnlyRenames ==
  [][\A symbol \in Symbols :
       (result[symbol] = Pending /\ result'[symbol] = Fulfilled) =>
         /\ settings' = settings
         /\ transactions' = transactions
         /\ Len(portfolio') = Len(portfolio)
         /\ \A i \in 1..Len(portfolio) :
              /\ portfolio'[i].id = portfolio[i].id
              /\ portfolio'[i].symbol = portfolio[i].symbol
              /\ portfolio'[i].shares = portfolio[i].shares
              /\ portfolio'[i].avgCost = portfolio[i].avgCost
              /\ portfolio[i].symbol # symbol => portfolio'[i] = portfolio[i]
              /\ portfolio[i].symbol = symbol =>
                   portfolio'[i].name = analyses'[symbol].companyName]_vars

\* the analysis of 2330 gave a company name, which its position shows, while
\* the position of 2317 still shows its symbol
C30_Witness ==
  /\ result["2330"] = Fulfilled
  /\ analyses["2330"].companyName = "x"
  /\ \E i \in 1..Len(portfolio) :
       portfolio[i].symbol = "2330" /\ portfolio[i].name = "x"
  /\ \E i \in 1..Len(portfolio) :
       portfolio[i].symbol = "2317" /\ portfolio[i].name = "2317"

\* the number a close is as a whole: as parseFloat reads it, but a number
\* only when nothing but blanks follows the digits
WholeNumber(close) ==
  IF close.json \in {"null", "undefined"} THEN None
  ELSE LET chars == close.text
           i == SkipBlanks(chars, 1)
           signed == i <= Len(chars) /\ chars[i] \in {"-", "+"}
           j == IF signed THEN i + 1 ELSE i
           n == DigitRun(chars, j)
       IN  IF n = 0 \/ SkipBlanks(chars, j + n) <= Len(chars) THEN None
           ELSE IF signed /\ chars[i] = "-"
                THEN Some(0 - DigitsValue(chars, j, n))
                ELSE Some(DigitsValue(chars, j, n))

\* the close is a number, or a string that is one (blanks around it allowed)
NumericClose(close) ==
  \/ close.json = "number"
  \/ close.json = "string" /\ WholeNumber(close) # None

\* the response is successful and its array of records is not empty
SuccessfulResponse(r) ==
  /\ r.kind = "http"
  /\ r.ok
  /\ r.msg = "success"
  /\ r.isArray
  /\ Len(r.data) > 0

\* C23: fetchFinMindPrice never rejects; it returns the close of the last
\* record when the response is successful, the array is not empty and that
\* close is a number greater than 0, and null in every other case.
C23_PriceIsLastNumericCloseOrNull ==
  fetchedPrice.called =>
    /\ ~fetchedPrice.rejected
    /\ LET last == priceResponse.data[Len(priceResponse.data)]
       IN  IF /\ SuccessfulResponse(priceResponse)
              /\ ~last.isNull
              /\ NumericClose(last.close)
              /\ parseFloat(last.close)[1] > 0
           THEN fetchedPrice.value = parseFloat(last.close)
           ELSE fetchedPrice.value = None

\* what fetchFinMindPrice does deliver: it never rejects, and it returns
\* parseFloat(close) of the last record when the response is successful, the
\* array is not empty and parseFloat makes a number greater than 0 of the
\* close, and null in every other case
PriceIsParsedCloseOrNull ==
  fetchedPrice.called =>
    /\ ~fetchedPrice.rejected
    /\ LET last == priceResponse.data[Len(priceResponse.data)]
       IN  IF /\ SuccessfulResponse(priceResponse)
              /\ ~last.isNull
              /\ parseFloat(last.close) # None
              /\ parseFloat(last.close)[1] > 0
           THEN fetchedPrice.value = parseFloat(last.close)
           ELSE fetchedPrice.value = None

\* C22: once the persistence effects have run, each of the four stored
\* blobs gives back, when it is loaded, the state in memory, so that a reload
\* restores the settings, the portfolio, the watchlist and the transactions
\* exactly; a missing blob loads as the default.
C22_StoredBlobsRestoreTheState ==
  /\ Load(localStorage.settings, DefaultSettings) = settings
  /\ Load(localStorage.portfolio, <<>>) = portfolio
  /\ Load(localStorage.watchlist, <<>>) = watchlist
  /\ Load(localStorage.transactions, <<>>) = transactions
  /\ Load(None, DefaultSettings) = [feeRate |-> DefaultFeeRate, cash |-> InitCash]
  /\ Load(None, <<>>) = <<>>

\* what the storage does deliver: the same, as long as no position holds an
\* average cost that is no finite number (the buy of no shares makes one)
StoredBlobsRestoreAFiniteState ==
  (\A i \in 1..Len(portfolio) : portfolio[i].avgCost.d # 0) =>
    C22_StoredBlobsRestoreTheState

\* C26: every portfolio-advice request ends its loading state: after
\* handleGetPortfolioAdvice, when its call of getOverallPortfolioAdvice is
\* over (every call is), isAdviceLoading is false and overallAdvice is set to
\* a text, whatever the outcome, a missing API key and a failing request
\* included.
C26_AdviceLoadingEnds ==
  (/\ adviceCalls # <<>>
   /\ \A c \in 1..Len(adviceCalls) : adviceCalls[c].pc = "done") =>
    /\ ~isAdviceLoading
    /\ overallAdvice # ""

\* what the handler does deliver: the same, when there is an API key
AdviceLoadingEndsWithAKey ==
  apiKey => C26_AdviceLoadingEnds

\* C25: every analysis started by handleAnalyze clears its loading flag in
\* the end: a symbol whose call is over is not loading, and a symbol that is
\* loading is not loading some time later.
C25_LoadingFlagIsCleared ==
  /\ [](\A symbol \in Symbols : pc[symbol] = "idle" => ~loadingStates[symbol])
  /\ \A symbol \in Symbols :
       loadingStates[symbol] ~> ~loadingStates[symbol]

\* one call has rejected and one has resolved, and neither symbol is loading
C25_Witness ==
  /\ result["2330"].state = "rejected"
  /\ result["2317"] = Fulfilled
  /\ ~loadingStates["2330"]
  /\ ~loadingStates["2317"]

\* a step of the watchlist: an entry is added or removed, or the analysis
\* that an add has started moves on
WatchlistStep ==
  \/ \E symbol \in Symbols : handleAddToWatchlist(symbol)
  \/ \E id \in 0..MaxTime : onRemoveWatch(id)
  \/ \E symbol \in Symbols : fromWatchlist[symbol] /\ pc'[symbol] # pc[symbol]

\* a step of the ledger: a buy, a sell or the removal of a position
LedgerStep ==
  \/ \E symbol \in Symbols, shares \in ShareInputs, price \in PriceInputs,
        fee \in FeeInputs : handleAddStock(symbol, shares, price, fee)
  \/ \E shares \in ShareInputs, price \in PriceInputs, fee \in FeeInputs :
        handleSellStock(shares, price, fee)
  \/ \E id \in 0..MaxTime : onRemove(id)

\* the positions without their display names
Unnamed(items) ==
  [i \in 1..Len(items) |->
     [id |-> items[i].id, symbol |-> items[i].symbol,
      shares |-> items[i].shares, avgCost |-> items[i].avgCost]]

\* C21 as stated: adding or removing a watchlist entry, the analysis it may
\* trigger included, leaves every position, the cash and the transactions
\* unchanged, and a buy, sell or position removal leaves the watchlist
\* unchanged.
C21_WatchlistLeavesPositionsUnchanged ==
  [][/\ WatchlistStep =>
          /\ portfolio' = portfolio
          /\ settings' = settings
          /\ transactions' = transactions
     /\ LedgerStep => watchlist' = watchlist]_vars

\* C21: adding or removing a watchlist entry, the analysis it may trigger
\* included, leaves the positions with their ids, symbols, shares and
\* average costs, the cash and the transactions unchanged (the analysis may
\* set the display name of the positions of its symbol), and a buy, sell or
\* position removal leaves the watchlist unchanged.
C21_WatchlistLeavesLedgerButNames ==
  [][/\ WatchlistStep =>
          /\ Unnamed(portfolio') = Unnamed(portfolio)
          /\ settings' = settings
          /\ transactions' = transactions
          /\ \A i \in 1..Len(portfolio) :
               portfolio'[i].name # portfolio[i].name =>
                 /\ fromWatchlist[portfolio[i].symbol]
                 /\ result'[portfolio[i].symbol] = Fulfilled
     /\ LedgerStep => watchlist' = watchlist]_vars

\* 2330 went on the watchlist, was bought a millisecond later, and an
\* analysis has given the position its company name; a share has been sold
\* and the watchlist is as it was
C21_Witness ==
  /\ watchlist = <<[id |-> 0, symbol |-> "2330"]>>
  /\ Len(portfolio) = 1
  /\ portfolio[1].id = 1
  /\ portfolio[1].name = analyses["2330"].companyName
  /\ portfolio[1].name # "2330"
  /\ Len(transactions) = 1

\* C24: per symbol at most one analysis is in flight: a call of handleAnalyze
\* for a symbol whose analysis is not over (by a refresh, the refresh of all,
\* a buy or a watchlist add) starts no new pipeline: the running call goes on
\* from where it stands and no request is sent.
C24_OneAnalysisInFlightPerSymbol ==
  [][\A symbol \in Symbols :
       (pc[symbol] # "idle" /\ CallerInvokes(symbol)) =>
         /\ pc'[symbol] = pc[symbol]
         /\ requests'[symbol] = requests[symbol]
         /\ result'[symbol] = result[symbol]
         /\ realTimePrice'[symbol] = realTimePrice[symbol]
         /\ loadingStates'[symbol]]_vars

\* the call that the watchlist add of 2330 started is still running, at its
\* third request, after the buy of 2330 that came a millisecond later
C24_Witness ==
  /\ fromWatchlist["2330"]
  /\ pc["2330"] = "transform"
  /\ requests["2330"] = <<"price", "support", "transform">>
  /\ watchlist = <<[id |-> 0, symbol |-> "2330"]>>
  /\ Len(portfolio) = 1
  /\ portfolio[1].id = 1

\* C29: the watchlist never holds two entries with the same symbol, under
\* any sequence of adds and removals.
C29_NoDuplicateWatchlistSymbol ==
  \A i, j \in 1..Len(watchlist) :
    watchlist[i].symbol = watchlist[j].symbol => i = j

\* both symbols are on the watchlist, 2330 added a millisecond after 2317,
\* and the analysis that the add of 2330 started has failed at its price
C29_Witness ==
  /\ Len(watchlist) = 2
  /\ watchlist[1] = [id |-> 0, symbol |-> "2317"]
  /\ watchlist[2] = [id |-> 1, symbol |-> "2330"]
  /\ requests["2330"] = <<"price">>
  /\ result["2330"].state = "rejected"
====
